---- MODULE Spec2Model ----
(***************************************************************************)
(* A model of the fire-escape (FFSL) compiler's semantic passes:           *)
(*   - the type environment (type_check.py: TypeEnv),                      *)
(*   - the position attribution of errors (error.py),                      *)
(*   - the scope-building walk and reference resolution (parser.py,        *)
(*     ast_nodes.py),                                                      *)
(*   - the type-checking walk (type_check.py: get_type, check_type).       *)
(*                                                                         *)
(* Three specifications share the variables:                               *)
(*   Spec        the pipeline parse() runs over one program,               *)
(*   SpecTypeEnv the pure functions of TypeEnv applied to drawn inputs,    *)
(*   SpecAttr    a pass wrapped by node_error_attributer, whose body may   *)
(*               raise any exception at any depth of its recursion.        *)
(***************************************************************************)
EXTENDS Naturals, Sequences, FiniteSets, TLC

(***************************************************************************)
(* Bounds of the model.                                                    *)
(***************************************************************************)
\* the deepest nesting of visits of a wrapped pass in SpecAttr
MaxDepth == 3
\* the number of distinct source positions in SpecAttr
MaxPos == 3
\* the most parameters of a function of the programs
MaxParams == 2
\* the most statements of a function body of the programs
MaxStmts == 2
\* the most arguments of a call of the programs
MaxArgs == 2

(***************************************************************************)
(* Results and exceptions.  A call either returns a value (cls = "ok") or  *)
(* raises an exception of class cls; val is the returned type name or a    *)
(* tag of the message, arg the 1-based argument index of a call            *)
(* diagnostic, pos the position (CodeError.pos; NoPos is Python's None).   *)
(***************************************************************************)
NoPos == <<0>>

None == "None"

Ok(v) == [cls |-> "ok", val |-> v, arg |-> 0, pos |-> NoPos]

Raise(c, m) == [cls |-> c, val |-> m, arg |-> 0, pos |-> NoPos]

RaiseAt(c, m, p) == [cls |-> c, val |-> m, arg |-> 0, pos |-> p]

NoExc == [cls |-> "none", val |-> "", arg |-> 0, pos |-> NoPos]

\* the subclasses of CodeError
CodeErrors == {"CodeError", "ParseError", "ReferenceError", "TypeError"}

IsCodeError(e) == e.cls \in CodeErrors

(***************************************************************************)
(* TypeEnv: the conversion graph and its queries.                          *)
(***************************************************************************)
Path(s) == {<<s[i], s[i + 1]>> : i \in 1..(Len(s) - 1)}

\* nx.add_path four times, graph.add_node("str")
Edges ==
    Path(<<"bool", "uint", "int", "float">>)
    \cup Path(<<"i8", "i16", "i32", "i64", "int">>)
    \cup Path(<<"u8", "u16", "u32", "u64", "uint">>)
    \cup Path(<<"f32", "f64", "float">>)

GraphNodes == {e[1] : e \in Edges} \cup {e[2] : e \in Edges} \cup {"str"}

\* the type names the passes can meet: the graph's, the built-in constant's
\* "json" (not in the graph) and a name no declaration introduces
TypeNames == GraphNodes \cup {"json", "nosuch"}

RECURSIVE Descendants(_)
\* the nodes a directed path leads to from a node of S, S included
Descendants(S) ==
    LET n == S \cup {e[2] : e \in {d \in Edges : d[1] \in S}}
    IN  IF n = S THEN S ELSE Descendants(n)

\* nx.has_path(graph, a, b)
HasPath(a, b) == b \in Descendants({a})

HasEdge(a, b) == <<a, b>> \in Edges

\* mutant: one edge instead of a path
IsConvertableToOneStep(child, ancestor) ==
    IF child = ancestor THEN TRUE
    ELSE IF child \in GraphNodes /\ ancestor \in GraphNodes
         THEN HasEdge(child, ancestor)
         ELSE FALSE

IsConvertableTo(child, ancestor) ==
    IF child = ancestor THEN TRUE
    ELSE IF child \in GraphNodes /\ ancestor \in GraphNodes
         THEN HasPath(child, ancestor)
         ELSE FALSE

\* the common ancestors of a and b in the reversed graph, a and b included
CommonAncestors(a, b) == Descendants({a}) \cap Descendants({b})

\* nx.lowest_common_ancestor(graph.reverse(), a, b): a common ancestor none of
\* whose successors in the reversed graph is a common ancestor; None without one
LowestCommonAncestor(a, b) ==
    LET common == CommonAncestors(a, b)
        lowest == {c \in common : \A d \in common : ~HasEdge(d, c)}
    IN  IF lowest = {} THEN None ELSE CHOOSE c \in lowest : TRUE

\* mutant: the wider operand when one converts to the other, else the first
LubTypeLeftBiased(type1, type2) ==
    IF type1 \in GraphNodes /\ type2 \in GraphNodes
    THEN IF HasPath(type1, type2) THEN type2 ELSE type1
    ELSE None

LubType(type1, type2) ==
    IF type1 \in GraphNodes /\ type2 \in GraphNodes
    THEN LowestCommonAncestor(type1, type2)
    ELSE None

UnaryOps == {"-", "not"}

BinaryOps ==
    {"or", "and", "==", "!=", ">", ">=", "<", "<=", "+", "-", "*", "/", "%", "**"}

UpdateOps == {"+=", "-=", "*=", "/="}

\* an operator symbol none of the rules knows
UnknownOp == "@"

CheckUnary(op, arg_type) ==
    IF op = "-" THEN
        IF ~IsConvertableTo(arg_type, "float") THEN Raise("TypeError", "unary")
        ELSE IF IsConvertableTo(arg_type, "int") THEN Ok("int")
        ELSE Ok("float")
    ELSE IF op = "not" THEN
        IF ~IsConvertableTo(arg_type, "float") THEN Raise("TypeError", "unary")
        ELSE Ok("bool")
    ELSE Raise("CompilerError", "unary operator")

\* both operands must convert to `to`
BothConvert(type1, type2, to) ==
    IsConvertableTo(type1, to) /\ IsConvertableTo(type2, to)

\* mutant: the left operand's type instead of the least upper bound
LubOrAssertLeft(type1, type2) == Ok(type1)

\* rtype = self.lub_type(..); assert rtype is not None; return rtype
LubOrAssert(type1, type2) ==
    LET rtype == LubType(type1, type2)
    IN  IF rtype = None THEN Raise("AssertionError", "rtype") ELSE Ok(rtype)

\* mutant: ** is typed as the arithmetic operators are, with the least upper
\* bound of the operand types
CheckBinaryPowerLub(op, type1, type2) ==
    IF op \notin BinaryOps THEN Raise("CompilerError", "binary operator")
    ELSE IF op \in {"==", "!="} /\ type1 = type2 THEN Ok("bool")
    ELSE IF ~BothConvert(type1, type2, IF op = "%" THEN "int" ELSE "float")
    THEN Raise("TypeError", "binary")
    ELSE IF op \in {"+", "-", "*", "/", "%", "**"} THEN LubOrAssert(type1, type2)
    ELSE Ok("bool")

\* mutant: == and != are typed as the comparisons are: both types must
\* convert to float also when they are equal
CheckBinaryNumericEquality(op, type1, type2) ==
    IF op \notin BinaryOps THEN Raise("CompilerError", "binary operator")
    ELSE IF ~BothConvert(type1, type2, IF op = "%" THEN "int" ELSE "float")
    THEN Raise("TypeError", "binary")
    ELSE IF op \in {"+", "-", "*", "/", "%"} THEN LubOrAssert(type1, type2)
    ELSE IF op = "**" THEN Ok("float")
    ELSE Ok("bool")

CheckBinary(op, type1, type2) ==
    IF op \in {"or", "and"} THEN
        IF ~BothConvert(type1, type2, "float") THEN Raise("TypeError", "binary")
        ELSE Ok("bool")
    ELSE IF op \in {"==", "!="} THEN
        IF type1 # type2 /\ ~BothConvert(type1, type2, "float")
        THEN Raise("TypeError", "binary")
        ELSE Ok("bool")
    ELSE IF op \in {">", ">=", "<", "<="} THEN
        IF ~BothConvert(type1, type2, "float") THEN Raise("TypeError", "binary")
        ELSE Ok("bool")
    ELSE IF op \in {"+", "-", "*", "/"} THEN
        IF ~BothConvert(type1, type2, "float") THEN Raise("TypeError", "binary")
        ELSE LubOrAssert(type1, type2)
    ELSE IF op = "%" THEN
        IF ~BothConvert(type1, type2, "int") THEN Raise("TypeError", "binary")
        ELSE LubOrAssert(type1, type2)
    ELSE IF op = "**" THEN
        IF ~BothConvert(type1, type2, "float") THEN Raise("TypeError", "binary")
        ELSE Ok("float")
    ELSE Raise("CompilerError", "binary operator")

\* the first position (from 1) whose argument type does not convert to the
\* parameter type, 0 when every argument converts
FirstMismatch(ptypes, atypes) ==
    LET bad == {i \in 1..Len(ptypes) : ~IsConvertableTo(atypes[i], ptypes[i])}
    IN  IF bad = {} THEN 0 ELSE CHOOSE i \in bad : \A j \in bad : i <= j

CheckCall(ptypes, rtype, atypes) ==
    IF Len(ptypes) # Len(atypes) THEN Raise("TypeError", "count")
    ELSE IF FirstMismatch(ptypes, atypes) # 0
    THEN [Raise("TypeError", "argument") EXCEPT !.arg = FirstMismatch(ptypes, atypes)]
    ELSE Ok(rtype)

\* mutant: any right-hand type may be assigned
CheckAssignAny(ltype, rtype) == NoExc

\* returns nothing: NoExc when the assignment is accepted
CheckAssign(ltype, rtype) ==
    IF ~IsConvertableTo(rtype, ltype) THEN Raise("TypeError", "assign") ELSE NoExc

CheckUpdate(op, ltype, rtype) ==
    IF op \in UpdateOps THEN
        IF ~BothConvert(ltype, rtype, "float") THEN Raise("TypeError", "binary")
        ELSE IF ~IsConvertableTo(rtype, ltype) THEN Raise("TypeError", "assign")
        ELSE NoExc
    ELSE Raise("CompilerError", "update operator")

(***************************************************************************)
(* The AST (ast_nodes.py).  A node is a record: its class (kind), its      *)
(* name (Ref, TypeRef, LocalVariable, Parameter, Func), its operator       *)
(* symbol, TypeRef.is_const, and its generic children list (kids).  A node *)
(* is identified by its path, the child indices leading to it from the     *)
(* Source node; the variant fields are read from the children the way      *)
(* build_ast fills both.                                                   *)
(***************************************************************************)
Node(kind, name, op, const, kids) ==
    [kind |-> kind, name |-> name, op |-> op, const |-> const, kids |-> kids]

Bool == Node("Bool", "", "", FALSE, <<>>)

Int == Node("Int", "", "", FALSE, <<>>)

Float == Node("Float", "", "", FALSE, <<>>)

Str == Node("Str", "", "", FALSE, <<>>)

Ref(name) == Node("Ref", name, "", FALSE, <<>>)

\* children=[arg]
UnaryExpr(op, arg) == Node("UnaryExpr", "", op, FALSE, <<arg>>)

\* children=[left, right]
BinaryExpr(left, op, right) == Node("BinaryExpr", "", op, FALSE, <<left, right>>)

\* func, *args = children
FuncCall(func, args) == Node("FuncCall", "", "", FALSE, <<Ref(func)>> \o args)

TypeRef(is_const, name) == Node("TypeRef", name, "", is_const, <<>>)

\* children=[type]
LocalVariable(name, type) == Node("LocalVariable", name, "", FALSE, <<type>>)

PassStmt == Node("PassStmt", "", "", FALSE, <<>>)

\* jvar, *idxs, type = children
JsonExpr(jvar, idxs, type) ==
    Node("JsonExpr", "", "", FALSE, <<Ref(jvar)>> \o idxs \o <<type>>)

\* args=children
PrintStmt(args) == Node("PrintStmt", "", "", FALSE, args)

\* children=[arg], or [] when arg is None
ReturnStmt(arg) == Node("ReturnStmt", "", "", FALSE, arg)

\* the declaring occurrence: children=[lvalue, rvalue, var]
Declare(name, type, rvalue) ==
    Node("AssignmentStmt", "", "", FALSE,
         <<Ref(name), rvalue, LocalVariable(name, type)>>)

\* a re-assignment, var=None: children=[lvalue, rvalue]
Assign(name, rvalue) ==
    Node("AssignmentStmt", "", "", FALSE, <<Ref(name), rvalue>>)

\* children=[lvalue, rvalue]
UpdateStmt(name, op, rvalue) ==
    Node("UpdateStmt", "", op, FALSE, <<Ref(name), rvalue>>)

Block(stmts) == Node("Block", "", "", FALSE, stmts)

ElifSection(condition, block) ==
    Node("ElifSection", "", "", FALSE, <<condition, block>>)

ElseSection(block) == Node("ElseSection", "", "", FALSE, <<block>>)

\* condition, block, *rest = children; rest holds the elif and else sections
IfStmt(condition, block, rest) ==
    Node("IfStmt", "", "", FALSE, <<condition, block>> \o rest)

\* the children the type and the name come from; the name is kept as a field
Parameter(name, type) == Node("Parameter", name, "", FALSE, <<type>>)

\* children = params, then rtype when given (a sequence of at most one), then block
Func(name, params, rtype, block) ==
    Node("Func", name, "", FALSE, params \o rtype \o <<block>>)

\* children: the functions.  The globals, the enums and the node and edge
\* tables of a source are left out: build_scope puts the columns of a table in
\* a ChainMap of its own, outside the chain of any function
Source(funcs) == Node("Source", "", "", FALSE, funcs)

RECURSIVE Sub(_, _)
\* the node at path p below node n
Sub(n, p) == IF p = <<>> THEN n ELSE Sub(n.kids[Head(p)], Tail(p))

Front(p) == SubSeq(p, 1, Len(p) - 1)

RECURSIVE PreOrder(_, _)
\* the paths of the nodes below n (at path p) in the order a walk over
\* node.children meets them
PreOrder(n, p) ==
    LET F[i \in 0..Len(n.kids)] ==
            IF i = 0 THEN <<p>>
            ELSE F[i - 1] \o PreOrder(n.kids[i], Append(p, i))
    IN  F[Len(n.kids)]

IsPrefix(p, q) == Len(p) <= Len(q) /\ SubSeq(q, 1, Len(p)) = p

(***************************************************************************)
(* Built-ins (builtins.py) and scopes.  A scope is a ChainMap: the list of *)
(* its maps, each an index into frames; a frame is a dict in insertion     *)
(* order, a sequence of entries name -> declaration.  A declaration is the *)
(* node registered (its class and path) or a built-in (its class).         *)
(***************************************************************************)
Decl(kind, path) == [kind |-> kind, path |-> path]

Entry(name, decl) == [name |-> name, decl |-> decl]

\* add_builtins(scope)
Builtins ==
    <<Entry("sqrt", Decl("BuiltinFunc", <<>>)),
      Entry("CONFIG", Decl("BuiltinConst", <<>>))>>

BuiltinPtypes(name) == IF name = "sqrt" THEN <<"float">> ELSE <<>>

BuiltinRtype(name) == IF name = "sqrt" THEN "float" ELSE None

\* BuiltinFunc.type: "(ptypes) -> rtype"
BuiltinFuncType(name) == IF name = "sqrt" THEN "(float) -> float" ELSE None

\* k in d
InFrame(frame, name) == \E i \in 1..Len(frame) : frame[i].name = name

\* d[k]
FrameGet(frame, name) ==
    frame[CHOOSE i \in 1..Len(frame) : frame[i].name = name].decl

\* d[k] = v: a new key goes last, an old key keeps its place
FrameSet(frame, name, decl) ==
    IF InFrame(frame, name)
    THEN [i \in 1..Len(frame) |->
            IF frame[i].name = name THEN Entry(name, decl) ELSE frame[i]]
    ELSE Append(frame, Entry(name, decl))

\* mutant: the outermost map that holds the name
ChainGetOutermost(fs, scope, name) ==
    LET hits == {i \in 1..Len(scope) : InFrame(fs[scope[i]], name)}
    IN  IF hits = {} THEN Raise("KeyError", name)
        ELSE LET i == CHOOSE j \in hits : \A k \in hits : k <= j
             IN  [cls |-> "ok", val |-> FrameGet(fs[scope[i]], name)]

\* ChainMap.__getitem__: the first map of the chain that holds the name
ChainGet(fs, scope, name) ==
    LET hits == {i \in 1..Len(scope) : InFrame(fs[scope[i]], name)}
    IN  IF hits = {} THEN Raise("KeyError", name)
        ELSE LET i == CHOOSE j \in hits : \A k \in hits : j <= k
             IN  [cls |-> "ok", val |-> FrameGet(fs[scope[i]], name)]

(***************************************************************************)
(* node_error_attributer (error.py): what the wrapper of a visit of the    *)
(* node at position npos does with exception e raised inside it.           *)
(***************************************************************************)
\* mutant: the position of every visited node overwrites the error's
AttributeOverwrite(e, npos) ==
    IF IsCodeError(e) THEN [e EXCEPT !.pos = npos]
    ELSE IF e.cls = "CompilerError" THEN e
    ELSE Raise("CompilerError", "node")

Attribute(e, npos) ==
    IF IsCodeError(e)
    THEN [e EXCEPT !.pos = IF e.pos = NoPos THEN npos ELSE e.pos]
    ELSE IF e.cls = "CompilerError" THEN e
    ELSE Raise("CompilerError", "node")

(***************************************************************************)
(* Variables.                                                              *)
(***************************************************************************)
VARIABLES
    ast,      \* the tree build_ast returned (the Source node)
    phase,    \* the pass parse() is running, "done" once it returned, "failed"
              \* once it raised, "codegen" once compile() generates code
    stack,    \* the recursion of the running pass: the visits in progress
    frames,   \* the dicts of all ChainMaps
    scopeOf,  \* the scope field of the Source, Func and Ref nodes, by path
    typeOf,   \* the type field of the expression nodes, by path
    exc,      \* the exception in flight, NoExc when none
    origin,   \* where the exception in flight was raised, and as what
    funcs,    \* the fields of the Func nodes the passes fill, by path
    funcOf,   \* the func field of the ReturnStmt nodes that have one, by path
    rendered, \* the calls of render() that codegen_openmp_cpu has made, in order
    ret       \* SpecTypeEnv: the last call of a TypeEnv function, with its result;
              \* SpecAttr: the wrappers the exception in flight has left

pipeVars == <<ast, phase, stack, frames, scopeOf, typeOf, exc, origin, funcs, funcOf, rendered>>

vars == <<ast, phase, stack, frames, scopeOf, typeOf, exc, origin, funcs, funcOf, rendered, ret>>

NoCall == [fn |-> "none"]

(***************************************************************************)
(* Reading the tree.                                                       *)
(***************************************************************************)
NodeAt(p) == Sub(ast, p)

\* node.pos: build_ast gives a LocalVariable the position of the assignment
\* statement that declares it; every other node has a position of its own,
\* which the model takes to be its path
Pos(p) == IF NodeAt(p).kind = "LocalVariable" THEN Front(p) ELSE p

Top == stack[Len(stack)]

Visit(path, scope) == [path |-> path, next |-> 1, scope |-> scope]

NoOrigin == [path |-> NoPos, exc |-> NoExc]

(***************************************************************************)
(* build_scope (parser.py), a pre-order walk with the active scope as its  *)
(* argument.                                                               *)
(***************************************************************************)
\* the outcome of the match statement: the exception raised, or the frames,
\* the scope fields and the scope the children are visited with
Matched(e, fs, so, scope) == [exc |-> e, frames |-> fs, scopeOf |-> so, scope |-> scope]

\* mutant: the name is looked up in the whole chain, `name in scope`
DefineUnlessVisible(fs, so, scope, name, decl, pos) ==
    IF \E i \in 1..Len(scope) : InFrame(fs[scope[i]], name)
    THEN Matched(RaiseAt("ReferenceError", "already defined", pos), fs, so, scope)
    ELSE Matched(NoExc, [fs EXCEPT ![scope[1]] = FrameSet(@, name, decl)], so, scope)

\* if name in scope.maps[0]: raise ReferenceError(.., pos=node.pos)
\* scope[name] = node
Define(fs, so, scope, name, decl, pos) ==
    IF InFrame(fs[scope[1]], name)
    THEN Matched(RaiseAt("ReferenceError", "already defined", pos), fs, so, scope)
    ELSE Matched(NoExc, [fs EXCEPT ![scope[1]] = FrameSet(@, name, decl)], so, scope)

\* scope = scope.new_child(); func.scope = scope
NewChild(m, p) ==
    IF m.exc # NoExc THEN m
    ELSE LET child == <<Len(m.frames) + 1>> \o m.scope
         IN  Matched(NoExc, Append(m.frames, <<>>), (p :> child) @@ m.scopeOf, child)

\* mutant: a declaration overwrites an entry of its frame without complaint
BuildScopeNodeNoCheck(fs, so, p, scope) ==
    LET n == NodeAt(p)
        set(name, decl) ==
            Matched(NoExc, [fs EXCEPT ![scope[1]] = FrameSet(@, name, decl)], so, scope)
    IN  CASE n.kind = "Source" -> Matched(NoExc, fs, (p :> scope) @@ so, scope)
          [] n.kind = "Func" -> NewChild(set(n.name, Decl("Func", p)), p)
          [] n.kind = "Ref" -> Matched(NoExc, fs, (p :> scope) @@ so, scope)
          [] n.kind \in {"LocalVariable", "Parameter"} -> set(n.name, Decl(n.kind, p))
          [] OTHER -> Matched(NoExc, fs, so, scope)

\* mutant: the name of a Ref is looked up when the Ref is visited
BuildScopeNodeEager(fs, so, p, scope) ==
    LET n == NodeAt(p)
    IN  CASE n.kind = "Source" -> Matched(NoExc, fs, (p :> scope) @@ so, scope)
          [] n.kind = "Func" ->
                NewChild(Define(fs, so, scope, n.name, Decl("Func", p), Pos(p)), p)
          [] n.kind = "Ref" ->
                IF ChainGet(fs, scope, n.name).cls = "ok"
                THEN Matched(NoExc, fs, (p :> scope) @@ so, scope)
                ELSE Matched(RaiseAt("ReferenceError", "not defined", Pos(p)), fs, so, scope)
          [] n.kind \in {"LocalVariable", "Parameter"} ->
                Define(fs, so, scope, n.name, Decl(n.kind, p), Pos(p))
          [] OTHER -> Matched(NoExc, fs, so, scope)

\* the match statement of build_scope on the node at p with the scope given
BuildScopeNode(fs, so, p, scope) ==
    LET n == NodeAt(p)
    IN  CASE n.kind = "Source" -> Matched(NoExc, fs, (p :> scope) @@ so, scope)
          [] n.kind = "Func" ->
                NewChild(Define(fs, so, scope, n.name, Decl("Func", p), Pos(p)), p)
          [] n.kind = "Ref" -> Matched(NoExc, fs, (p :> scope) @@ so, scope)
          [] n.kind \in {"LocalVariable", "Parameter"} ->
                Define(fs, so, scope, n.name, Decl(n.kind, p), Pos(p))
          [] OTHER -> Matched(NoExc, fs, so, scope)

\* build_scope(node, scope) is entered: the match statement runs, and either
\* raises or leaves the visit at its loop over the children
EnterBuildScope(fs, p, scope, rest) ==
    LET m == BuildScopeNode(fs, scopeOf, p, scope)
    IN  /\ frames' = m.frames
        /\ scopeOf' = m.scopeOf
        /\ exc' = m.exc
        /\ origin' = IF m.exc = NoExc THEN origin ELSE [path |-> p, exc |-> m.exc]
        /\ stack' = Append(rest, Visit(p, m.scope))

\* parse(): root_scope = ChainMap(); add_builtins(root_scope);
\* build_scope(source, root_scope)
Parse ==
    /\ phase = "parse"
    /\ phase' = "build_scope"
    /\ EnterBuildScope(<<Builtins>>, <<>>, <<1>>, <<>>)
    /\ UNCHANGED <<ast, typeOf, funcs, funcOf, rendered, ret>>

\* for child in node.children: build_scope(child, scope)
BuildScopeCall ==
    /\ phase = "build_scope" /\ exc = NoExc /\ stack # <<>>
    /\ Top.next <= Len(NodeAt(Top.path).kids)
    /\ EnterBuildScope(frames, Append(Top.path, Top.next), Top.scope,
                       [stack EXCEPT ![Len(stack)].next = @ + 1])
    /\ UNCHANGED <<ast, phase, typeOf, funcs, funcOf, rendered, ret>>

\* the loop over the children is over: the visit returns; the outermost
\* visit returns to parse()
BuildScopeReturn ==
    /\ phase = "build_scope" /\ exc = NoExc /\ stack # <<>>
    /\ Top.next > Len(NodeAt(Top.path).kids)
    /\ stack' = Front(stack)
    /\ phase' = IF Len(stack) = 1 THEN "collect_local_varaibles" ELSE phase
    /\ UNCHANGED <<ast, frames, scopeOf, typeOf, exc, origin, funcs, funcOf, rendered, ret>>

\* the exception leaves a visit through the wrapper of node_error_attributer;
\* out of the outermost visit it leaves parse()
BuildScopeRaise ==
    /\ phase = "build_scope" /\ exc # NoExc /\ stack # <<>>
    /\ exc' = Attribute(exc, Pos(Top.path))
    /\ stack' = Front(stack)
    /\ phase' = IF Len(stack) = 1 THEN "failed" ELSE phase
    /\ UNCHANGED <<ast, frames, scopeOf, typeOf, origin, funcs, funcOf, rendered, ret>>

(***************************************************************************)
(* Ref.value() (ast_nodes.py): the name is looked up in the scope the Ref  *)
(* recorded, when it is asked for.                                         *)
(***************************************************************************)
RefValue(fs, so, p) ==
    IF p \notin DOMAIN so THEN Raise("AssertionError", "scope")
    ELSE LET r == ChainGet(fs, so[p], NodeAt(p).name)
         IN  IF r.cls = "ok" THEN r ELSE Raise("ReferenceError", "not defined")

(***************************************************************************)
(* The passes between build_scope and check_type (parser.py).  Each is a   *)
(* walk wrapped by node_error_attributer and is taken in one step: the     *)
(* nodes are visited in pre-order up to the first exception, which then    *)
(* leaves through the wrapper of every visit in progress.                  *)
(***************************************************************************)
RECURSIVE AttributeAll(_, _)
\* the exception raised in the visit of the node at p, once out of the walk
AttributeAll(e, p) ==
    IF p = <<>> THEN Attribute(e, Pos(p))
    ELSE AttributeAll(Attribute(e, Pos(p)), Front(p))

\* the func argument of a visit: the innermost Func at or above the node
EnclosingFuncs(p) ==
    {q \in {SubSeq(p, 1, i) : i \in 0..Len(p)} : NodeAt(q).kind = "Func"}

HasFunc(p) == EnclosingFuncs(p) # {}

EnclosingFunc(p) ==
    CHOOSE q \in EnclosingFuncs(p) : \A r \in EnclosingFuncs(p) : Len(r) <= Len(q)

FuncPaths == {q \in {PreOrder(ast, <<>>)[i] : i \in 1..Len(PreOrder(ast, <<>>))} :
                NodeAt(q).kind = "Func"}

\* the fields of a Func node that later passes fill, as constructed
NewFunc ==
    [lvars |-> <<>>, return_stmts |-> <<>>, calls |-> <<>>,
     contains_print_stmt |-> FALSE, contains_json_expr |-> FALSE]

\* mutant: every entry of the frame is taken, the parameters too
SelectEntries(frame) == frame

SelectLocals(frame) == SelectSeq(frame, LAMBDA e : e.decl.kind = "LocalVariable")

\* collect_local_varaibles: func.lvars of every Func, from the entries of
\* func.scope.maps[0] in their order
CollectLocalVariables(fs, so) ==
    [q \in FuncPaths |->
        LET locals == SelectLocals(fs[so[q][1]])
        IN  [i \in 1..Len(locals) |-> locals[i].decl.path]]

\* device_function_check on the node at p: the exception its match raises
DeviceCheckNode(fs, so, p) ==
    LET n == NodeAt(p)
    IN  IF n.kind \in {"PrintStmt", "JsonExpr", "FuncCall"} /\ ~HasFunc(p)
        THEN Raise("AssertionError", "func")
        ELSE IF n.kind = "FuncCall"
        THEN LET v == RefValue(fs, so, Append(p, 1))
             IN  IF v.cls = "ok" THEN NoExc ELSE v
        ELSE NoExc

\* link_return_statements on the node at p: the exception its match raises;
\* fo holds stmt.func of the statements that have one
LinkReturnNode(fo, p) ==
    IF NodeAt(p).kind # "ReturnStmt" THEN NoExc
    ELSE IF ~HasFunc(p) THEN Raise("AssertionError", "func is not None")
    ELSE IF p \in DOMAIN fo THEN Raise("AssertionError", "stmt.func is None")
    ELSE NoExc

\* the first node of the walk whose match raises, 0 when none does; raised
\* gives, for every node of the walk, what its match raises
FirstRaise(raised) ==
    LET bad == {i \in 1..Len(raised) : raised[i] # NoExc}
    IN  IF bad = {} THEN 0 ELSE CHOOSE i \in bad : \A j \in bad : i <= j

\* the nodes a walk visits before the node whose match raises (all of them
\* when none does), in the order of the walk
VisitedBefore(i) ==
    LET order == PreOrder(ast, <<>>)
    IN  IF i = 0 THEN order ELSE SubSeq(order, 1, i - 1)

\* mutant: the nodes of kind k the walk meets inside any function
WithinAnyFunc(seq, k, q) ==
    SelectSeq(seq, LAMBDA v : NodeAt(v).kind = k /\ HasFunc(v))

\* the nodes of kind k among seq that the walk meets with func = q
Within(seq, k, q) ==
    SelectSeq(seq, LAMBDA v : NodeAt(v).kind = k /\ HasFunc(v) /\ EnclosingFunc(v) = q)

\* mutant: the exception is dropped and parse() goes on to type checking
AbortAndGoOn(e, p) ==
    /\ exc' = AttributeAll(e, p)
    /\ origin' = [path |-> p, exc |-> e]
    /\ phase' = "check_type"

\* the exception of the walk leaves parse()
Abort(e, p) ==
    /\ exc' = AttributeAll(e, p)
    /\ origin' = [path |-> p, exc |-> e]
    /\ phase' = "failed"

\* the walk returned; parse() goes on to the next pass
Continue(next) ==
    /\ phase' = next
    /\ UNCHANGED <<exc, origin>>

CollectLocalVariablesPass ==
    /\ phase = "collect_local_varaibles"
    /\ funcs' = [q \in DOMAIN funcs |->
                    [funcs[q] EXCEPT !.lvars = @ \o CollectLocalVariables(frames, scopeOf)[q]]]
    /\ Continue("link_return_statements")
    /\ UNCHANGED <<ast, stack, frames, scopeOf, typeOf, funcOf, rendered, ret>>

LinkReturnStatementsPass ==
    /\ phase = "link_return_statements"
    /\ LET order == PreOrder(ast, <<>>)
           i == FirstRaise([k \in 1..Len(order) |-> LinkReturnNode(funcOf, order[k])])
           seen == VisitedBefore(i)
       IN  /\ funcs' = [q \in DOMAIN funcs |->
                          [funcs[q] EXCEPT !.return_stmts = @ \o Within(seen, "ReturnStmt", q)]]
           /\ funcOf' = LET linked == SelectSeq(seen, LAMBDA v : NodeAt(v).kind = "ReturnStmt")
                         IN  [v \in {linked[k] : k \in 1..Len(linked)} |-> EnclosingFunc(v)]
           /\ IF i = 0 THEN Continue("device_function_check")
              ELSE Abort(LinkReturnNode(funcOf, PreOrder(ast, <<>>)[i]),
                         PreOrder(ast, <<>>)[i])
    /\ UNCHANGED <<ast, stack, frames, scopeOf, typeOf, rendered, ret>>

\* mutant: whatever the callee resolves to is appended, a built-in too
CalleesOfAnyKind(seq) ==
    [j \in 1..Len(seq) |-> RefValue(frames, scopeOf, Append(seq[j], 1)).val.path]

\* the callees func.calls gains: the Func declarations the calls resolve to
Callees(seq) ==
    LET calls == SelectSeq(seq, LAMBDA v :
                    RefValue(frames, scopeOf, Append(v, 1)).val.kind = "Func")
    IN  [j \in 1..Len(calls) |-> RefValue(frames, scopeOf, Append(calls[j], 1)).val.path]

\* after it parse() calls check_type(source, env): the visit of the Source
\* node begins
DeviceFunctionCheckPass ==
    /\ phase = "device_function_check"
    /\ LET order == PreOrder(ast, <<>>)
           Match(v) == DeviceCheckNode(frames, scopeOf, v)
           i == FirstRaise([k \in 1..Len(order) |-> Match(order[k])])
           seen == VisitedBefore(i)
       IN  /\ funcs' = [q \in DOMAIN funcs |->
                          [funcs[q] EXCEPT
                            !.contains_print_stmt = @ \/ Within(seen, "PrintStmt", q) # <<>>,
                            !.contains_json_expr = @ \/ Within(seen, "JsonExpr", q) # <<>>,
                            !.calls = @ \o Callees(Within(seen, "FuncCall", q))]]
           /\ IF i = 0
              THEN /\ Continue("check_type")
                   /\ stack' = <<Visit(<<>>, <<>>)>>
              ELSE /\ Abort(Match(PreOrder(ast, <<>>)[i]), PreOrder(ast, <<>>)[i])
                   /\ stack' = stack
    /\ UNCHANGED <<ast, frames, scopeOf, typeOf, funcOf, rendered, ret>>

(***************************************************************************)
(* get_type and check_type (type_check.py).  check_type is a post-order    *)
(* walk: the children are checked, then the node; whatever is raised in a  *)
(* visit passes the except clause of that visit and of every visit above.  *)
(***************************************************************************)
GetType(fs, so, to, p) ==
    LET n == NodeAt(p)
    IN  CASE n.kind = "Bool" -> Ok("bool")
          [] n.kind = "Int" -> Ok("int")
          [] n.kind = "Float" -> Ok("float")
          [] n.kind = "Str" -> Ok("str")
          [] n.kind = "Ref" ->
                LET obj == RefValue(fs, so, p)
                IN  IF obj.cls # "ok" THEN obj
                    ELSE IF obj.val.kind = "LocalVariable"
                    THEN Ok(NodeAt(obj.val.path).kids[1].name)
                    ELSE IF obj.val.kind = "BuiltinFunc"
                    THEN Ok(BuiltinFuncType(n.name))
                    ELSE Raise("RuntimeError", "Unknown type")
          [] n.kind \in {"UnaryExpr", "BinaryExpr", "FuncCall"} ->
                IF p \in DOMAIN to THEN Ok(to[p]) ELSE Raise("AssertionError", "type")
          [] OTHER -> Raise("CompilerError", "Unexpected expression type")

\* the first exception among the results, NoExc when all are values
FirstExc(results) ==
    LET bad == {i \in 1..Len(results) : results[i].cls # "ok"}
    IN  IF bad = {} THEN NoExc
        ELSE results[CHOOSE i \in bad : \A j \in bad : i <= j]

\* the outcome of the match statement of check_type: the exception raised, or
\* the type fields as the node leaves them
Checked(e, to) == [exc |-> e, typeOf |-> to]

\* mutant: a type field that is set is not written again
AnnotateOnce(r, to, p) ==
    IF r.cls # "ok" THEN Checked(r, to)
    ELSE IF p \in DOMAIN to THEN Checked(Raise("AssertionError", "type is set"), to)
    ELSE Checked(NoExc, (p :> r.val) @@ to)

\* expr.type = <the type a rule returned>
Annotate(r, to, p) ==
    IF r.cls = "ok" THEN Checked(NoExc, (p :> r.val) @@ to) ELSE Checked(r, to)

CheckFuncCall(fs, so, to, p) ==
    LET n == NodeAt(p)
        atypes == [i \in 1..(Len(n.kids) - 1) |-> GetType(fs, so, to, Append(p, i + 1))]
        callee == RefValue(fs, so, Append(p, 1))
        name == n.kids[1].name
    IN  IF FirstExc(atypes) # NoExc THEN Checked(FirstExc(atypes), to)
        ELSE IF callee.cls # "ok" THEN Checked(callee, to)
        ELSE IF callee.val.kind = "BuiltinFunc"
        THEN Annotate(CheckCall(BuiltinPtypes(name), BuiltinRtype(name),
                                [i \in 1..Len(atypes) |-> atypes[i].val]), to, p)
        ELSE Checked(Raise("TypeError", "not callable"), to)

\* the AssignmentStmt and UpdateStmt cases up to the call of check_assign or
\* check_update: the exception raised before it, or the types it is called
\* with; exempt tells whether a const variable may be written
Store(e, ltype, rtype) == [exc |-> e, ltype |-> ltype, rtype |-> rtype]

CheckStore(fs, so, to, p, exempt) ==
    LET obj == RefValue(fs, so, Append(p, 1))
        ltype == GetType(fs, so, to, Append(p, 1))
        rtype == GetType(fs, so, to, Append(p, 2))
    IN  IF obj.cls # "ok" THEN Store(obj, None, None)
        ELSE IF obj.val.kind # "LocalVariable"
        THEN Store(Raise("CompilerError", "Unknown lvalue type"), None, None)
        ELSE IF NodeAt(obj.val.path).kids[1].const /\ ~exempt
        THEN Store(Raise("TypeError", "const"), None, None)
        ELSE IF ltype.cls # "ok" THEN Store(ltype, None, None)
        ELSE IF rtype.cls # "ok" THEN Store(rtype, None, None)
        ELSE Store(NoExc, ltype.val, rtype.val)

\* stmt.var is not None
IsDeclaring(p) == Len(NodeAt(p).kids) = 3

CheckCondition(fs, so, to, p) ==
    LET cond_type == GetType(fs, so, to, Append(p, 1))
    IN  IF cond_type.cls # "ok" THEN Checked(cond_type, to)
        ELSE IF ~IsConvertableTo(cond_type.val, "float")
        THEN Checked(Raise("TypeError", "condition"), to)
        ELSE Checked(NoExc, to)

\* the match statement of check_type on the node at p
CheckTypeNode(fs, so, to, p) ==
    LET n == NodeAt(p)
    IN  CASE n.kind = "TypeRef" ->
                IF n.name \notin GraphNodes
                THEN Checked(Raise("TypeError", "Unknown type"), to)
                ELSE Checked(NoExc, to)
          [] n.kind = "UnaryExpr" ->
                LET arg_type == GetType(fs, so, to, Append(p, 1))
                IN  IF arg_type.cls # "ok" THEN Checked(arg_type, to)
                    ELSE Annotate(CheckUnary(n.op, arg_type.val), to, p)
          [] n.kind = "BinaryExpr" ->
                LET type1 == GetType(fs, so, to, Append(p, 1))
                    type2 == GetType(fs, so, to, Append(p, 2))
                IN  IF type1.cls # "ok" THEN Checked(type1, to)
                    ELSE IF type2.cls # "ok" THEN Checked(type2, to)
                    ELSE Annotate(CheckBinary(n.op, type1.val, type2.val), to, p)
          [] n.kind = "FuncCall" -> CheckFuncCall(fs, so, to, p)
          [] n.kind = "AssignmentStmt" ->
                LET s == CheckStore(fs, so, to, p, IsDeclaring(p))
                IN  IF s.exc # NoExc THEN Checked(s.exc, to)
                    ELSE Checked(CheckAssign(s.ltype, s.rtype), to)
          [] n.kind = "UpdateStmt" ->
                LET s == CheckStore(fs, so, to, p, FALSE)
                IN  IF s.exc # NoExc THEN Checked(s.exc, to)
                    ELSE Checked(CheckUpdate(n.op, s.ltype, s.rtype), to)
          [] n.kind \in {"IfStmt", "ElifSection"} -> CheckCondition(fs, so, to, p)
          [] OTHER -> Checked(NoExc, to)

\* except CodeError as e: e.line = node.line if e.line is None else e.line ...
\* CodeError (error.py) has a pos and no line: reading e.line raises
\* AttributeError in place of e; any other exception is not caught
CheckTypeExcept(e, p) ==
    IF IsCodeError(e) THEN Raise("AttributeError", "line") ELSE e

\* for child in node.children: check_type(child, env)
CheckTypeCall ==
    /\ phase = "check_type" /\ exc = NoExc /\ stack # <<>>
    /\ Top.next <= Len(NodeAt(Top.path).kids)
    /\ stack' = Append([stack EXCEPT ![Len(stack)].next = @ + 1],
                       Visit(Append(Top.path, Top.next), <<>>))
    /\ UNCHANGED <<ast, phase, frames, scopeOf, typeOf, exc, origin, funcs, funcOf, rendered, ret>>

\* the children are checked: the match statement runs on the node; the visit
\* returns, or what it raises reaches the except clause of this visit
CheckTypeMatch ==
    /\ phase = "check_type" /\ exc = NoExc /\ stack # <<>>
    /\ Top.next > Len(NodeAt(Top.path).kids)
    /\ LET c == CheckTypeNode(frames, scopeOf, typeOf, Top.path)
       IN  /\ typeOf' = c.typeOf
           /\ exc' = c.exc
           /\ origin' = IF c.exc = NoExc THEN origin
                        ELSE [path |-> Top.path, exc |-> c.exc]
           /\ stack' = IF c.exc = NoExc THEN Front(stack) ELSE stack
           /\ phase' = IF c.exc = NoExc /\ Len(stack) = 1 THEN "done" ELSE phase
    /\ UNCHANGED <<ast, frames, scopeOf, funcs, funcOf, rendered, ret>>

\* the exception passes the except clause of a visit; out of the outermost
\* visit it leaves parse()
CheckTypeRaise ==
    /\ phase = "check_type" /\ exc # NoExc /\ stack # <<>>
    /\ exc' = CheckTypeExcept(exc, Top.path)
    /\ stack' = Front(stack)
    /\ phase' = IF Len(stack) = 1 THEN "failed" ELSE phase
    /\ UNCHANGED <<ast, frames, scopeOf, typeOf, origin, funcs, funcOf, rendered, ret>>

(***************************************************************************)
(* Code generation (codegen.py).  The text render() returns is the output  *)
(* of a template; it stands here as the name of the template.              *)
(***************************************************************************)
\* TYPE_TO_CTYPE (codegen.py): the C++ type of every type name it knows
TYPE_TO_CTYPE ==
    [name \in {"int", "uint", "float", "bool", "u8", "u16", "u32", "u64",
               "i8", "i16", "i32", "i64", "f32", "f64", "str"} |->
        CASE name = "int" -> "std::int64_t"
          [] name = "uint" -> "std::uint64_t"
          [] name \in {"float", "f64"} -> "double"
          [] name = "bool" -> "bool"
          [] name = "f32" -> "float"
          [] name = "str" -> "std::string"
          [] name \in {"u8", "u16", "u32", "u64"} -> "std::uint" \o
                (IF name = "u8" THEN "8" ELSE IF name = "u16" THEN "16"
                 ELSE IF name = "u32" THEN "32" ELSE "64") \o "_t"
          [] OTHER -> "std::int" \o
                (IF name = "i8" THEN "8" ELSE IF name = "i16" THEN "16"
                 ELSE IF name = "i32" THEN "32" ELSE "64") \o "_t"]

RECURSIVE CodegenExpr(_)
\* codegen_expr(node), node at p: Ok(text) or the exception raised.  A literal
\* of the model has no value: its text is that of one value of its class
CodegenExpr(p) ==
    LET \* sep.join(l + text + r for the texts of children lo..hi)
        Join(kid, lo, hi, sep, l, r) ==
            LET j[k \in (lo - 1)..hi] ==
                    IF k < lo THEN ""
                    ELSE (IF k = lo THEN "" ELSE j[k - 1] \o sep) \o l \o kid[k].val \o r
            IN  j[hi]
        \* the node n, codegen_expr of its children lo..hi, which is called
        \* first, and func.value() or jvar.value()
        Text(n, kid, lo, hi, value) ==
            LET bad == {k \in lo..hi : kid[k].cls # "ok"}
                rtype == n.kids[Len(n.kids)].name
            IN  IF bad # {} THEN kid[CHOOSE k \in bad : \A i \in bad : k <= i]
                ELSE CASE n.kind = "Bool" -> Ok("true")
                       [] n.kind = "Int" -> Ok("0")
                       [] n.kind = "Float" -> Ok("0.0")
                       [] n.kind = "Str" -> Ok("\"\"")
                       [] n.kind = "Ref" -> Ok("_" \o n.name)
                       [] n.kind = "UnaryExpr" -> Ok("( " \o n.op \o " (" \o kid[1].val \o ") )")
                       [] n.kind = "BinaryExpr" ->
                             IF n.op = "**"
                             THEN Ok("std::pow( (" \o kid[1].val \o "), (" \o kid[2].val \o ") )")
                             ELSE Ok("( (" \o kid[1].val \o ") " \o n.op \o " ("
                                     \o kid[2].val \o ") )")
                       [] n.kind = "FuncCall" ->
                             IF value.cls # "ok" THEN value
                             ELSE IF value.val.kind # "BuiltinFunc"
                             THEN Raise("CompilerError", "unexpected function value")
                             ELSE IF n.kids[1].name # "sqrt"
                             THEN Raise("KeyError", n.kids[1].name)
                             ELSE Ok("std::sqrt(" \o Join(kid, lo, hi, ", ", "", "") \o ")")
                       [] n.kind = "JsonExpr" ->
                             IF rtype \notin DOMAIN TYPE_TO_CTYPE THEN Raise("KeyError", rtype)
                             ELSE IF value.cls # "ok" THEN value
                             ELSE IF value.val.kind # "BuiltinConst"
                             THEN Raise("CompilerError", "unexpected json variable")
                             ELSE Ok(n.kids[1].name \o Join(kid, lo, hi, "", "[", "]")
                                     \o ".template get<" \o TYPE_TO_CTYPE[rtype] \o ">()")
                       [] OTHER -> Raise("CompilerError", "unexpected node type")
        OfNode(n) ==
            Text(n, [k \in 1..Len(n.kids) |-> CodegenExpr(Append(p, k))],
                 IF n.kind \in {"FuncCall", "JsonExpr"} THEN 2 ELSE 1,
                 CASE n.kind = "UnaryExpr" -> 1
                   [] n.kind = "BinaryExpr" -> 2
                   [] n.kind = "FuncCall" -> Len(n.kids)
                   [] n.kind = "JsonExpr" -> Len(n.kids) - 1
                   [] OTHER -> 0,
                 RefValue(frames, scopeOf, Append(p, 1)))
    IN  OfNode(NodeAt(p))

\* codegen_openmp_cpu(node), node at p.  The cases of the sections, of the if
\* statement and of the source read stmt.stmts and source.lvars, attributes the
\* classes ElseSection, ElifSection, IfStmt and Source (ast_nodes.py) do not
\* have and the passes do not set: the read raises AttributeError
CodegenOpenmpCpu(p) ==
    LET \* the exception raised or the text returned, and the calls of render()
        \* made on the way
        Generated(e, text, requests) == [exc |-> e, text |-> text, requests |-> requests]
        Render(template, pos, params) ==
            Generated(NoExc, template,
                      <<[template |-> template, pos |-> pos, params |-> params]>>)
        Failed(e) == Generated(e, "", <<>>)
        \* the node n at pos, and codegen_expr of n itself (0) and of its
        \* children lo..hi, which is called first
        Stmt(n, pos, expr, lo, hi) ==
            LET bad == {k \in lo..hi : expr[k].cls # "ok"}
                format[k \in 0..hi] ==
                    IF k = 0 THEN "" ELSE IF k = 1 THEN "{}" ELSE format[k - 1] \o " {}"
            IN  IF bad # {} THEN Failed(expr[CHOOSE k \in bad : \A i \in bad : k <= i])
                ELSE CASE lo = 0 -> Generated(NoExc, expr[0].val, <<>>)
                       [] n.kind = "PassStmt" -> Generated(NoExc, "// pass", <<>>)
                       [] n.kind = "AssignmentStmt" ->
                             Render("openmp-cpu:assignment_stmt", pos,
                                    [lvalue |-> expr[1].val, rvalue |-> expr[2].val])
                       [] n.kind = "UpdateStmt" ->
                             Render("openmp-cpu:update_stmt", pos,
                                    [lvalue |-> expr[1].val, op |-> n.op,
                                     rvalue |-> expr[2].val])
                       [] n.kind = "PrintStmt" ->
                             Render("openmp-cpu:print_stmt", pos,
                                    [format_string |-> format[hi],
                                     args |-> [k \in 1..hi |-> expr[k].val]])
                       [] n.kind \in {"ElseSection", "ElifSection", "IfStmt"} ->
                             Failed(Raise("AttributeError", "stmts"))
                       [] n.kind = "Source" -> Failed(Raise("AttributeError", "lvars"))
                       [] OTHER -> Failed(Raise("CompilerError", "unexpected node type"))
        OfNode(n) ==
            Stmt(n, Pos(p),
                 [k \in 0..Len(n.kids) |-> CodegenExpr(IF k = 0 THEN p ELSE Append(p, k))],
                 IF n.kind \in {"Bool", "Int", "Float", "Str", "Ref",
                                "UnaryExpr", "BinaryExpr", "JsonExpr"} THEN 0 ELSE 1,
                 CASE n.kind \in {"AssignmentStmt", "UpdateStmt"} -> 2
                   [] n.kind = "PrintStmt" -> Len(n.kids)
                   [] n.kind \in {"ElifSection", "IfStmt"} -> 1
                   [] OTHER -> 0)
    IN  OfNode(NodeAt(p))

\* compile (cli.py): parse() returned the tree; main.cpp is opened and
\* codegen_openmp_cpu(source) is called.  An exception of parse() leaves
\* compile() before that.
Compile ==
    /\ phase = "done"
    /\ phase' = "codegen"
    /\ UNCHANGED <<ast, stack, frames, scopeOf, typeOf, exc, origin, funcs, funcOf, rendered, ret>>

\* compile (cli.py): codegen_openmp_cpu(source) returns, and CMakeLists.txt is
\* rendered, or its exception leaves compile()
Codegen ==
    /\ phase = "codegen"
    /\ exc = NoExc
    /\ rendered = <<>>
    /\ LET main == CodegenOpenmpCpu(<<>>)
       IN  /\ exc' = main.exc
           /\ rendered' =
                IF main.exc # NoExc THEN main.requests
                ELSE main.requests \o
                     <<[template |-> "openmp-cpu:CMakeLists.txt", pos |-> NoPos,
                        params |-> [module |-> "module"]]>>
    /\ UNCHANGED <<ast, phase, stack, frames, scopeOf, typeOf, origin, funcs, funcOf, ret>>

(***************************************************************************)
(* The programs.                                                           *)
(***************************************************************************)
\* the sequences over S of length lo to hi
Seqs(S, lo, hi) == UNION {[1..k -> S] : k \in lo..hi}

T(name) == TypeRef(FALSE, name)

Literals == {Bool, Int, Float, Str}

\* the statements of the programs that exercise the scopes: declarations that
\* repeat or shadow a name, references and calls before and after the
\* declaration they name, declarations in the blocks of an if statement
ScopeStmts ==
    {Declare("x", T("int"), Int),
     Declare("f", T("int"), Int),
     Declare("sqrt", T("float"), Float),
     Assign("x", Ref("f")),
     Declare("y", T("float"), FuncCall("sqrt", <<Ref("x")>>)),
     Declare("y", T("int"), FuncCall("g", <<>>)),
     IfStmt(Bool, Block(<<Declare("x", T("int"), Int)>>),
            <<ElseSection(Block(<<Declare("x", T("int"), Int)>>))>>),
     IfStmt(Bool, Block(<<Declare("y", T("int"), Int)>>),
            <<ElifSection(Ref("x"), Block(<<Assign("y", Int)>>))>>)}

ScopeParams == {Parameter("x", T("int")), Parameter("sqrt", T("int"))}

\* a second function: one that repeats the name f, one that is called before
\* it is defined and declares a variable the first may declare too
ScopeTails ==
    {<<Func("f", <<>>, <<>>, Block(<<PassStmt>>))>>,
     <<Func("g", <<>>, <<T("int")>>, Block(<<Declare("x", T("int"), Int)>>))>>}

\* one function f, with no parameter or the parameter x, over every body; f
\* with every list of parameters over a body that declares one of their
\* names; a function named as a built-in; f followed by a second function
ScopePrograms ==
    {Source(<<Func("f", params, <<>>, Block(body))>>) :
        params \in {<<>>, <<Parameter("x", T("int"))>>},
        body \in Seqs(ScopeStmts, 1, MaxStmts)}
    \cup
    {Source(<<Func("f", params, <<>>, Block(<<Declare(name, T("int"), Int)>>))>>) :
        params \in Seqs(ScopeParams, 0, MaxParams),
        name \in {"x", "sqrt"}}
    \cup
    {Source(<<Func("sqrt", <<>>, <<>>, Block(<<PassStmt>>))>>)}
    \cup
    {Source(<<Func("f", <<>>, <<>>, Block(body))>> \o tail) :
        body \in Seqs(ScopeStmts, 1, MaxStmts), tail \in ScopeTails}

\* the expressions of the programs that exercise the typing rules
Operands == Literals \cup {Ref("x")}

CallArgs == {Int, Float, Str}

TypeExprs ==
    Literals
    \cup {Ref(n) : n \in {"x", "p", "sqrt", "CONFIG", "g", "nosuch"}}
    \cup {JsonExpr("CONFIG", <<Str>>, TypeRef(FALSE, "int"))}
    \cup {UnaryExpr(op, a) : op \in UnaryOps \cup {UnknownOp}, a \in Literals}
    \cup {BinaryExpr(a, op, b) :
            op \in {"+", "%", "**", "==", UnknownOp}, a \in Operands, b \in Literals}
    \cup {BinaryExpr(UnaryExpr("-", a), "*", FuncCall("sqrt", <<b>>)) :
            a \in Literals, b \in Literals}
    \cup {FuncCall(f, args) :
            f \in {"sqrt", "g", "x", "nosuch"}, args \in Seqs(CallArgs, 0, MaxArgs)}

\* the first statement declares x: the declarations the rules accept and some
\* they do not, each const-qualified or not
FirstDecls ==
    {Declare("x", TypeRef(c, t[1]), t[2]) :
        c \in BOOLEAN,
        t \in {<<"int", Int>>, <<"float", Int>>, <<"float", Float>>,
               <<"bool", Bool>>, <<"uint", Bool>>, <<"str", Str>>,
               <<"int", Float>>, <<"i8", Int>>, <<"nosuch", Int>>}}

TypeStmts ==
    {Assign("x", e) : e \in TypeExprs}
    \cup {Assign(n, Int) : n \in {"p", "g", "nosuch"}}
    \cup {UpdateStmt("x", op, e) : op \in {"+=", UnknownOp}, e \in Literals}
    \cup {Declare("y", TypeRef(c, t), e) :
            c \in BOOLEAN, t \in {"int", "str"}, e \in {Ref("x"), Float}}
    \cup {IfStmt(e, Block(<<PassStmt>>), <<ElifSection(Int, Block(<<PassStmt>>))>>) :
            e \in Operands}

\* g takes one int and returns an int; f declares x and goes on with one
\* more statement
TypePrograms ==
    {Source(<<Func("g", <<Parameter("a", T("int"))>>, <<T("int")>>, Block(<<PassStmt>>)),
              Func("f", <<Parameter("p", T("int"))>>, <<>>, Block(<<first, second>>))>>) :
        first \in FirstDecls, second \in TypeStmts}

\* the statements with a return, a print, a json expression or a call of f,
\* of g or of the built-in sqrt
FlowStmts ==
    {ReturnStmt(<<FuncCall("f", <<>>)>>),
     ReturnStmt(<<FuncCall("sqrt", <<Float>>)>>),
     PrintStmt(<<FuncCall("g", <<>>)>>),
     PrintStmt(<<JsonExpr("CONFIG", <<Str>>, TypeRef(FALSE, "int"))>>),
     IfStmt(Bool, Block(<<ReturnStmt(<<Int>>)>>), <<ElseSection(Block(<<ReturnStmt(<<>>)>>))>>)}

\* the function f over every body, followed by a function g, which calls f
\* or prints, or by a statement that is in no function
FlowPrograms ==
    LET tails ==
            {<<Func("g", <<>>, <<>>, Block(<<s>>))>> :
                s \in {ReturnStmt(<<FuncCall("f", <<>>)>>), PrintStmt(<<Str>>)}}
            \cup {<<s>> : s \in {ReturnStmt(<<>>), PrintStmt(<<Str>>)}}
    IN  {Source(<<Func("f", <<>>, <<>>, Block(body))>> \o tail) :
            body \in Seqs(FlowStmts, 1, MaxStmts), tail \in tails}

Programs == ScopePrograms \cup TypePrograms \cup FlowPrograms

Init ==
    /\ ast \in Programs
    /\ phase = "parse"
    /\ stack = <<>>
    /\ frames = <<>>
    /\ scopeOf = <<>>
    /\ typeOf = <<>>
    /\ exc = NoExc
    /\ origin = NoOrigin
    /\ funcs = [q \in FuncPaths |-> NewFunc]
    /\ funcOf = <<>>
    /\ rendered = <<>>
    /\ ret = NoCall

Next ==
    \/ Parse
    \/ BuildScopeCall
    \/ BuildScopeReturn
    \/ BuildScopeRaise
    \/ CollectLocalVariablesPass
    \/ LinkReturnStatementsPass
    \/ DeviceFunctionCheckPass
    \/ CheckTypeCall
    \/ CheckTypeMatch
    \/ CheckTypeRaise
    \/ Compile
    \/ Codegen

Spec == Init /\ [][Next]_vars

(***************************************************************************)
(* SpecPasses: parse() on the programs that exercise the scopes, the       *)
(* returns, the prints and the calls, and on one that assigns the result   *)
(* of a function defined later to a variable declared later.               *)
(***************************************************************************)
InitPasses ==
    /\ ast \in ScopePrograms \cup FlowPrograms \cup
               {Source(<<Func("f", <<>>, <<>>,
                              Block(<<Assign("x", FuncCall("g", <<>>)),
                                      Declare("x", T("int"), Int)>>)),
                         Func("g", <<>>, <<T("int")>>, Block(<<PassStmt>>))>>)}
    /\ phase = "parse"
    /\ stack = <<>>
    /\ frames = <<>>
    /\ scopeOf = <<>>
    /\ typeOf = <<>>
    /\ exc = NoExc
    /\ origin = NoOrigin
    /\ funcs = [q \in FuncPaths |-> NewFunc]
    /\ funcOf = <<>>
    /\ rendered = <<>>
    /\ ret = NoCall

SpecPasses == InitPasses /\ [][Next]_vars

(***************************************************************************)
(* check_type called a second time on the tree parse() has checked, with   *)
(* the annotations of the first call left in place: the walks of parse(),  *)
(* then the second call.  ret keeps the outcome of the first call.         *)
(***************************************************************************)
\* parse() reached check_type: the passes before it raised nothing
CheckTypeRan ==
    \/ phase = "done"
    \/ /\ phase = "failed"
       /\ origin.exc.val # "already defined"
       /\ LET order == PreOrder(ast, <<>>)
          IN  /\ FirstRaise([k \in 1..Len(order) |-> LinkReturnNode(<<>>, order[k])]) = 0
              /\ FirstRaise([k \in 1..Len(order) |->
                                DeviceCheckNode(frames, scopeOf, order[k])]) = 0

\* check_type(source, env) once more
CheckTypeAgain ==
    /\ ret = NoCall
    /\ CheckTypeRan
    /\ ret' = [fn |-> "check_type", returned |-> phase = "done", exc |-> exc,
               typeOf |-> typeOf]
    /\ phase' = "check_type"
    /\ stack' = <<Visit(<<>>, <<>>)>>
    /\ exc' = NoExc
    /\ origin' = NoOrigin
    /\ UNCHANGED <<ast, frames, scopeOf, typeOf, funcs, funcOf, rendered>>

NextTwice == Next \/ CheckTypeAgain

SpecTwice == Init /\ [][NextTwice]_vars

(***************************************************************************)
(* SpecTypeEnv: the functions of TypeEnv applied to every input.  Each     *)
(* behaviour is one call: the inputs are drawn when the function is        *)
(* applied, and ret records them with the result.                          *)
(***************************************************************************)
ApplyIsConvertableTo ==
    /\ ret = NoCall
    /\ UNCHANGED pipeVars
    /\ \E a \in TypeNames, b \in TypeNames, c \in TypeNames :
        ret' = [fn |-> "is_convertable_to", a |-> a, b |-> b, c |-> c,
                aa |-> IsConvertableTo(a, a),
                ab |-> IsConvertableTo(a, b),
                bc |-> IsConvertableTo(b, c),
                ac |-> IsConvertableTo(a, c)]

ApplyLubType ==
    /\ ret = NoCall
    /\ UNCHANGED pipeVars
    /\ \E a \in TypeNames, b \in TypeNames :
        ret' = [fn |-> "lub_type", a |-> a, b |-> b,
                ab |-> LubType(a, b), ba |-> LubType(b, a)]

ApplyCheckBinary ==
    /\ ret = NoCall
    /\ UNCHANGED pipeVars
    /\ \E op \in BinaryOps \cup {UnknownOp}, a \in TypeNames, b \in TypeNames :
        ret' = [fn |-> "check_binary", op |-> op, a |-> a, b |-> b,
                out |-> CheckBinary(op, a, b)]

InitTypeEnv ==
    /\ ret = NoCall
    /\ ast = Source(<<>>)
    /\ phase = "idle"
    /\ stack = <<>>
    /\ frames = <<>>
    /\ scopeOf = <<>>
    /\ typeOf = <<>>
    /\ exc = NoExc
    /\ origin = NoOrigin
    /\ funcs = <<>>
    /\ funcOf = <<>>
    /\ rendered = <<>>

NextTypeEnv == ApplyIsConvertableTo \/ ApplyLubType \/ ApplyCheckBinary

SpecTypeEnv == InitTypeEnv /\ [][NextTypeEnv]_vars

(***************************************************************************)
(* SpecAttr: a recursive pass wrapped by node_error_attributer (error.py), *)
(* over nodes that differ by position only.  stack holds the wrapper calls *)
(* in progress, exc the exception in flight, origin the exception as the   *)
(* pass raised it, ret the positions of the wrappers it has left so far.   *)
(***************************************************************************)
Positions == {<<i>> : i \in 1..MaxPos}

\* what the body of a pass can raise: a CodeError with or without a
\* position, a CompilerError, or any other exception
Raisable ==
    {Raise(c, "user") : c \in {"ReferenceError", "TypeError"}}
        \cup {RaiseAt("TypeError", "user", q) : q \in Positions}
        \cup {Raise("CompilerError", "internal"), Raise("KeyError", "k")}

Through(seq) == [fn |-> "node_error_attributer", through |-> seq]

attrVars == <<ast, frames, scopeOf, typeOf, funcs, funcOf, rendered>>

\* wrapper(node, ...): the pass is called on a node, at the top or from the
\* pass running on the parent
AttrVisit ==
    /\ phase \in {"idle", "visiting"}
    /\ Len(stack) < MaxDepth
    /\ \E q \in Positions : stack' = Append(stack, Visit(q, <<>>))
    /\ phase' = "visiting"
    /\ UNCHANGED <<exc, origin, ret>>
    /\ UNCHANGED attrVars

\* return fn(node, ...): the pass returns normally
AttrReturn ==
    /\ phase = "visiting"
    /\ stack # <<>>
    /\ stack' = Front(stack)
    /\ UNCHANGED <<phase, exc, origin, ret>>
    /\ UNCHANGED attrVars

\* the pass raises while running on the node of the innermost call
AttrRaise ==
    /\ phase = "visiting"
    /\ stack # <<>>
    /\ \E e \in Raisable :
        /\ exc' = e
        /\ origin' = [path |-> Top.path, exc |-> e]
    /\ phase' = "raised"
    /\ ret' = Through(<<>>)
    /\ UNCHANGED stack
    /\ UNCHANGED attrVars

\* the except clauses of the innermost wrapper still in progress
AttrUnwind ==
    /\ phase \in {"raised", "unwinding"}
    /\ stack # <<>>
    /\ exc' = Attribute(exc, Top.path)
    /\ ret' = Through(Append(ret.through, Top.path))
    /\ stack' = Front(stack)
    /\ phase' = IF Len(stack) = 1 THEN "propagated" ELSE "unwinding"
    /\ UNCHANGED origin
    /\ UNCHANGED attrVars

InitAttr ==
    /\ ast = Source(<<>>)
    /\ phase = "idle"
    /\ stack = <<>>
    /\ frames = <<>>
    /\ scopeOf = <<>>
    /\ typeOf = <<>>
    /\ exc = NoExc
    /\ origin = NoOrigin
    /\ funcs = <<>>
    /\ funcOf = <<>>
    /\ rendered = <<>>
    /\ ret = Through(<<>>)

NextAttr == AttrVisit \/ AttrReturn \/ AttrRaise \/ AttrUnwind

SpecAttr == InitAttr /\ [][NextAttr]_vars

(***************************************************************************)
(* Claims about the scopes, checked under Spec.  What a declaration or a   *)
(* reference should meet is read from the tree, not from the frames.       *)
(***************************************************************************)
AllPaths == {PreOrder(ast, <<>>)[i] : i \in 1..Len(PreOrder(ast, <<>>))}

\* the walk meets the node at q before the node at p: q is above p, or in
\* a subtree to the left of p
Before(q, p) ==
    /\ q # p
    /\ \/ IsPrefix(q, p)
       \/ \E i \in 1..Len(q) :
            /\ i <= Len(p)
            /\ SubSeq(q, 1, i - 1) = SubSeq(p, 1, i - 1)
            /\ q[i] < p[i]

DeclKinds == {"Func", "LocalVariable", "Parameter"}

\* the node whose frame a declaration belongs to: the innermost Func properly
\* above it, the Source node when there is none
OwnerOf(p) ==
    IF p # <<>> /\ HasFunc(Front(p)) THEN EnclosingFunc(Front(p)) ELSE <<>>

\* the declarations of the name of p that the walk meets before p in the
\* frame of p
EarlierDecls(p) ==
    {q \in AllPaths : /\ NodeAt(q).kind \in DeclKinds
                      /\ NodeAt(q).name = NodeAt(p).name
                      /\ OwnerOf(q) = OwnerOf(p)
                      /\ Before(q, p)}

BuiltinNames == {"sqrt", "CONFIG"}

NameTaken(p) ==
    \/ EarlierDecls(p) # {}
    \/ OwnerOf(p) = <<>> /\ NodeAt(p).name \in BuiltinNames

\* a declaration above the frame of p has the name of p
Shadows(p) ==
    /\ OwnerOf(p) # <<>>
    /\ \/ NodeAt(p).name \in BuiltinNames
       \/ \E q \in AllPaths : /\ NodeAt(q).kind = "Func"
                              /\ NodeAt(q).name = NodeAt(p).name
                              /\ Before(q, p)

\* build_scope has just run its match statement on a declaration
JustDeclared ==
    /\ phase = "build_scope" /\ stack # <<>>
    /\ NodeAt(Top.path).kind \in DeclKinds
    /\ Top.next = 1
    /\ exc = NoExc \/ origin.path = Top.path

\* the frame a declaration at p goes to, and the chain of its scope
FrameOf(p) == IF OwnerOf(p) = <<>> THEN 1 ELSE scopeOf[OwnerOf(p)][1]

ScopeBuilt ==
    \/ phase \in {"collect_local_varaibles", "link_return_statements",
                  "device_function_check", "check_type", "done", "codegen"}
    \/ phase = "failed" /\ origin.exc.val # "already defined"

\* the declarations of name n in the function at f, among the nodes given
LocalDecls(nodes, f, n) ==
    {q \in nodes : /\ NodeAt(q).kind \in {"LocalVariable", "Parameter"}
                   /\ NodeAt(q).name = n
                   /\ IsPrefix(f, q)}

\* the functions of the program root with the name n, among the nodes given
RootDecls(nodes, n) ==
    {q \in nodes : NodeAt(q).kind = "Func" /\ NodeAt(q).name = n}

\* the Ref nodes inside functions, among the nodes given
RefsInFuncs(nodes) == {p \in nodes : NodeAt(p).kind = "Ref" /\ HasFunc(p)}

\* what the tree says Ref p resolves to, against what Ref.value() returns
ResolvesNearest(nodes, p) ==
    LET v == RefValue(frames, scopeOf, p)
        n == NodeAt(p).name
        local == LocalDecls(nodes, EnclosingFunc(p), n)
        root == RootDecls(nodes, n)
    IN  IF local # {}
        THEN /\ v.cls = "ok"
             /\ v.val.path \in local
             /\ v.val.kind = NodeAt(v.val.path).kind
        ELSE IF root # {}
        THEN v.cls = "ok" /\ v.val.kind = "Func" /\ v.val.path \in root
        ELSE IF n \in BuiltinNames
        THEN v.cls = "ok" /\ v.val.kind \in {"BuiltinFunc", "BuiltinConst"}
        ELSE v.cls = "ReferenceError"

\* check_type has just returned from a child of the innermost visit, and
\* nothing has changed since: every node but the root is LastReturned in the
\* state that follows its return
HasReturned == phase = "check_type" /\ exc = NoExc /\ stack # <<>> /\ Top.next > 1

LastReturned == Append(Top.path, Top.next - 1)

Primitives ==
    {"bool", "uint", "int", "float", "i8", "i16", "i32", "i64",
     "u8", "u16", "u32", "u64", "f32", "f64", "str"}

\* C3: over the primitive types is_convertable_to is reflexive and transitive,
\* str converts only to itself and nothing else converts to str.
C3_LatticeReflexiveTransitive ==
    (ret.fn = "is_convertable_to" /\ {ret.a, ret.b, ret.c} \subseteq Primitives) =>
        /\ ret.aa
        /\ (ret.ab /\ ret.bc) => ret.ac
        /\ (ret.ab /\ "str" \in {ret.a, ret.b}) => ret.a = ret.b

\* C3 witness: a chain of two conversions between three different types
C3_Witness ==
    /\ ret.fn = "is_convertable_to"
    /\ ret.a = "i8" /\ ret.b = "int" /\ ret.c = "float"
    /\ ret.ab /\ ret.bc /\ ret.ac

\* C4: lub_type(a, b) and lub_type(b, a) are the same type, or both have no
\* result.
C4_LubSymmetric ==
    ret.fn = "lub_type" => ret.ab = ret.ba

\* C4 witness: two types neither of which converts to the other
C4_Witness ==
    /\ ret.fn = "lub_type"
    /\ ret.a = "i8" /\ ret.b = "u8"
    /\ ret.ab = "int" /\ ret.ba = "int"

\* C5: for + - * / on operands that both convert to float, check_binary returns
\* lub_type of the operand types, which exists, is a conversion target of both
\* operands and converts to every other common target; otherwise it raises
\* TypeError.
C5_ArithmeticResultType ==
    (ret.fn = "check_binary" /\ ret.op \in {"+", "-", "*", "/"}) =>
        IF IsConvertableTo(ret.a, "float") /\ IsConvertableTo(ret.b, "float")
        THEN /\ ret.out.cls = "ok"
             /\ ret.out.val # None
             /\ ret.out.val = LubType(ret.a, ret.b)
             /\ IsConvertableTo(ret.a, ret.out.val)
             /\ IsConvertableTo(ret.b, ret.out.val)
             /\ \A t \in TypeNames :
                    (IsConvertableTo(ret.a, t) /\ IsConvertableTo(ret.b, t))
                        => IsConvertableTo(ret.out.val, t)
        ELSE ret.out.cls = "TypeError"

\* C5 witness: mixed-width arithmetic whose result is neither operand's type
C5_Witness ==
    /\ ret.fn = "check_binary" /\ ret.op = "+"
    /\ ret.a = "i8" /\ ret.b = "u8"
    /\ ret.out = Ok("int")

\* C15: check_binary("**", type1, type2) returns float when both types
\* convert to float, whatever their least upper bound is, and raises TypeError
\* when one of them does not.
C15_ExponentiationType ==
    (ret.fn = "check_binary" /\ ret.op = "**") =>
        IF IsConvertableTo(ret.a, "float") /\ IsConvertableTo(ret.b, "float")
        THEN ret.out = Ok("float")
        ELSE ret.out.cls = "TypeError"

\* C15 witness: i8 ** i8 is float, where the least upper bound is i8
C15_Witness ==
    /\ ret.fn = "check_binary" /\ ret.op = "**"
    /\ ret.a = "i8" /\ ret.b = "i8"
    /\ LubType(ret.a, ret.b) = "i8"
    /\ ret.out = Ok("float")

\* C20: check_binary for == and != returns bool when the two types are
\* equal, whatever they are; when they differ it returns bool if both convert
\* to float and raises TypeError if one does not.
C20_EqualityRule ==
    (ret.fn = "check_binary" /\ ret.op \in {"==", "!="}) =>
        IF ret.a = ret.b THEN ret.out = Ok("bool")
        ELSE IF IsConvertableTo(ret.a, "float") /\ IsConvertableTo(ret.b, "float")
        THEN ret.out = Ok("bool")
        ELSE ret.out.cls = "TypeError"

\* C20 witness: str == str is bool, though str does not convert to float
C20_Witness ==
    /\ ret.fn = "check_binary" /\ ret.op = "=="
    /\ ret.a = "str" /\ ret.b = "str"
    /\ ~IsConvertableTo("str", "float")
    /\ ret.out = Ok("bool")

C14_CheckTypeIdempotent ==
    ret # NoCall =>
        /\ \A p \in DOMAIN ret.typeOf : p \in DOMAIN typeOf /\ typeOf[p] = ret.typeOf[p]
        /\ phase \in {"done", "failed"} =>
             /\ ret.returned <=> phase = "done"
             /\ exc = ret.exc
             /\ typeOf = ret.typeOf

\* C14 witness: the second call returned on a tree with an annotated call
\* inside an annotated operator node
C14_Witness ==
    /\ ret # NoCall
    /\ phase = "done"
    /\ \E p \in DOMAIN typeOf :
         NodeAt(p).kind = "BinaryExpr" /\ Append(p, 2) \in DOMAIN typeOf

(***************************************************************************)
(* Claim about the order of the passes, checked under Spec.                *)
(***************************************************************************)
\* the passes of parse() and the code generation of compile(), in the order
\* the claim gives
PassOrder ==
    <<"parse", "build_scope", "collect_local_varaibles", "link_return_statements",
      "device_function_check", "check_type", "done", "codegen">>

ExprKinds == {"UnaryExpr", "BinaryExpr", "FuncCall"}

\* what the pass that has just ended left behind, over the whole tree
PassComplete(ph, fs, so, to, fn) ==
    LET nodes == AllPaths
    IN  CASE ph = "build_scope" ->
                /\ \A p \in nodes :
                      NodeAt(p).kind \in {"Source", "Func", "Ref"} => p \in DOMAIN so
                /\ \A p \in nodes :
                      NodeAt(p).kind \in DeclKinds =>
                          \E i \in 1..Len(fs) : \E j \in 1..Len(fs[i]) :
                              fs[i][j] = Entry(NodeAt(p).name, Decl(NodeAt(p).kind, p))
          [] ph = "collect_local_varaibles" ->
                \A q \in FuncPaths : fn[q].lvars = CollectLocalVariables(fs, so)[q]
          [] ph = "check_type" ->
                \A p \in nodes : NodeAt(p).kind \in ExprKinds => p \in DOMAIN to
          [] OTHER -> TRUE

HasRaised == origin.exc # NoExc

\* the exception has left check_type(node it was raised at)
LeftVisit == phase = "failed" \/ (stack # <<>> /\ Top.path # origin.path)

\* the lvalue of the statement at p resolves to a LocalVariable and the
\* right-hand side has a type
StoresToVariable(p) ==
    /\ RefValue(frames, scopeOf, Append(p, 1)).cls = "ok"
    /\ RefValue(frames, scopeOf, Append(p, 1)).val.kind = "LocalVariable"
    /\ GetType(frames, scopeOf, typeOf, Append(p, 2)).cls = "ok"

\* the TypeRef of the variable the statement at p stores to
VarType(p) == NodeAt(RefValue(frames, scopeOf, Append(p, 1)).val.path).kids[1]

RhsType(p) == GetType(frames, scopeOf, typeOf, Append(p, 2)).val

\* C6: a re-assignment (var is None) to a LocalVariable makes check_type raise
\* TypeError when the variable is const, and otherwise exactly when the
\* right-hand type does not convert to the declared type.
C6_ReassignmentRule ==
    LET Reassigns(p) == /\ NodeAt(p).kind = "AssignmentStmt"
                        /\ ~IsDeclaring(p)
                        /\ StoresToVariable(p)
        Refused(p) == \/ VarType(p).const
                      \/ ~IsConvertableTo(RhsType(p), VarType(p).name)
    IN  /\ (HasReturned /\ Reassigns(LastReturned)) => ~Refused(LastReturned)
        /\ (HasRaised /\ Reassigns(origin.path)) =>
                /\ Refused(origin.path)
                /\ LeftVisit => exc.cls = "TypeError"

\* C7 as stated: the match statement of a declaring assignment never raises
\* TypeError.
C7_DeclaringAlwaysPermitted ==
    (origin.exc.cls = "TypeError" /\ NodeAt(origin.path).kind = "AssignmentStmt")
        => ~IsDeclaring(origin.path)

\* C7 amended: a declaring assignment is exempt from the const rule only; its
\* match statement raises the TypeError of check_assign exactly when the
\* right-hand type does not convert to the declared type, const or not.
C7_DeclaringAssignment ==
    LET Declares(p) == /\ NodeAt(p).kind = "AssignmentStmt"
                       /\ IsDeclaring(p)
                       /\ StoresToVariable(p)
        Converts(p) == IsConvertableTo(RhsType(p), VarType(p).name)
    IN  /\ (HasReturned /\ Declares(LastReturned)) => Converts(LastReturned)
        /\ (HasRaised /\ Declares(origin.path)) =>
                /\ ~Converts(origin.path)
                /\ origin.exc = Raise("TypeError", "assign")

\* C7 witness: x was declared const with a right-hand side that converts and
\* the declaration was accepted; the declaration of the const y: int with a
\* Float after it was refused by check_assign
C7_Witness ==
    /\ origin.path = <<2, 2, 2>>
    /\ IsDeclaring(<<2, 2, 2>>) /\ IsDeclaring(<<2, 2, 1>>)
    /\ VarType(<<2, 2, 1>>).const /\ VarType(<<2, 2, 2>>).const
    /\ origin.exc = Raise("TypeError", "assign")
    /\ RhsType(<<2, 2, 2>>) = "float" /\ VarType(<<2, 2, 2>>).name = "int"

\* the declared parameter types and return type of the Func at q
FuncPtypes(q) ==
    LET params == SelectSeq(NodeAt(q).kids, LAMBDA k : k.kind = "Parameter")
    IN  [i \in 1..Len(params) |-> params[i].kids[1].name]

FuncRtype(q) ==
    LET rtype == SelectSeq(NodeAt(q).kids, LAMBDA k : k.kind = "TypeRef")
    IN  IF rtype = <<>> THEN None ELSE rtype[1].name

Callee(p) == RefValue(frames, scopeOf, Append(p, 1))

ArgTypes(p) ==
    [i \in 1..(Len(NodeAt(p).kids) - 1) |-> GetType(frames, scopeOf, typeOf, Append(p, i + 1))]

\* the callee of the call at p is a built-in function or a Func, and the
\* arguments have types
CallsCallable(p) ==
    /\ Callee(p).cls = "ok"
    /\ Callee(p).val.kind \in {"BuiltinFunc", "Func"}
    /\ \A i \in DOMAIN ArgTypes(p) : ArgTypes(p)[i].cls = "ok"

\* C8: for a call of a built-in function or a Func, the match statement raises
\* TypeError when the argument count differs from the parameter count or an
\* argument does not convert to its parameter's type (naming the first such
\* argument, from 1), and otherwise gives the call the declared return type.
C8_CallRule ==
    LET Calls(p) == NodeAt(p).kind = "FuncCall" /\ CallsCallable(p)
        Builtin(p) == Callee(p).val.kind = "BuiltinFunc"
        Ptypes(p) == IF Builtin(p) THEN BuiltinPtypes(NodeAt(p).kids[1].name)
                     ELSE FuncPtypes(Callee(p).val.path)
        Rtype(p) == IF Builtin(p) THEN BuiltinRtype(NodeAt(p).kids[1].name)
                    ELSE FuncRtype(Callee(p).val.path)
        Atypes(p) == [i \in DOMAIN ArgTypes(p) |-> ArgTypes(p)[i].val]
        Count(p) == Len(Ptypes(p)) # Len(Atypes(p))
        First(p) == IF Count(p) THEN 0 ELSE FirstMismatch(Ptypes(p), Atypes(p))
    IN  /\ (HasReturned /\ Calls(LastReturned)) =>
                /\ ~Count(LastReturned) /\ First(LastReturned) = 0
                /\ LastReturned \in DOMAIN typeOf
                /\ typeOf[LastReturned] = Rtype(LastReturned)
        /\ (HasRaised /\ Calls(origin.path)) =>
                /\ origin.exc.cls = "TypeError"
                /\ Count(origin.path) \/ First(origin.path) # 0
                /\ ~Count(origin.path) => origin.exc.arg = First(origin.path)

\* C9: a TypeError raised by a typing rule leaves check_type as that
\* TypeError, with the position of the node whose rule raised it; an unknown
\* operator leaves it as a CompilerError.
C9_TypeErrorsAreUserErrors ==
    (HasRaised /\ LeftVisit) =>
        /\ origin.exc.cls = "TypeError" =>
             /\ exc.cls = "TypeError"
             /\ exc.val = origin.exc.val
             /\ exc.pos = Pos(origin.path)
        /\ origin.exc.val \in {"unary operator", "binary operator", "update operator"} =>
             exc.cls = "CompilerError"

\* C16: an IfStmt or ElifSection whose condition has a type makes check_type
\* raise TypeError when that type does not convert to float, and is accepted
\* when it does.
C16_ConditionRule ==
    LET Tests(p) == /\ NodeAt(p).kind \in {"IfStmt", "ElifSection"}
                    /\ GetType(frames, scopeOf, typeOf, Append(p, 1)).cls = "ok"
        Refused(p) ==
            ~IsConvertableTo(GetType(frames, scopeOf, typeOf, Append(p, 1)).val, "float")
    IN  /\ (HasReturned /\ Tests(LastReturned)) => ~Refused(LastReturned)
        /\ (HasRaised /\ Tests(origin.path)) =>
                /\ Refused(origin.path)
                /\ LeftVisit => exc.cls = "TypeError"

\* C19: when the match statement of check_type runs on a node, the type
\* field of every child that is a UnaryExpr, BinaryExpr or FuncCall is set;
\* when check_type has returned, the type field of every such node of the
\* tree is set and is a type name; and get_type returns a type for every
\* operand, argument, condition and right-hand side that is a literal, a Ref
\* to a LocalVariable or a Parameter, an operator or call node or a JsonExpr.
C19_PostOrderAnnotation ==
    LET Operand(n, i) ==
            CASE n.kind \in {"UnaryExpr", "BinaryExpr"} -> TRUE
              [] n.kind = "FuncCall" -> i > 1
              [] n.kind \in {"AssignmentStmt", "UpdateStmt"} -> i = 2
              [] n.kind \in {"IfStmt", "ElifSection"} -> i = 1
              [] OTHER -> FALSE
        Typed(p) ==
            \/ NodeAt(p).kind \in {"Bool", "Int", "Float", "Str", "JsonExpr"} \cup ExprKinds
            \/ /\ NodeAt(p).kind = "Ref"
               /\ RefValue(frames, scopeOf, p).cls = "ok"
               /\ RefValue(frames, scopeOf, p).val.kind \in {"LocalVariable", "Parameter"}
    IN  /\ (phase = "check_type" /\ exc = NoExc /\ stack # <<>>
                /\ Top.next > Len(NodeAt(Top.path).kids)) =>
             \A i \in 1..Len(NodeAt(Top.path).kids) :
                LET kid == Append(Top.path, i)
                IN  /\ NodeAt(kid).kind \in ExprKinds => kid \in DOMAIN typeOf
                    /\ (Operand(NodeAt(Top.path), i) /\ Typed(kid)) =>
                            GetType(frames, scopeOf, typeOf, kid).cls = "ok"
        /\ phase = "done" =>
             \A p \in AllPaths :
                NodeAt(p).kind \in ExprKinds => p \in DOMAIN typeOf /\ typeOf[p] \in GraphNodes

(***************************************************************************)
(* Claim about node_error_attributer, checked under SpecAttr.              *)
(***************************************************************************)
\* C10: a CodeError leaving nested wrapped visits keeps the position it was
\* raised with; raised without one, it gets the position of the innermost
\* visited node and no outer visit changes that; a CompilerError is re-raised
\* as it is, with no position added.
C10_PositionEnrichment ==
    ret.fn = "node_error_attributer" =>
        /\ IsCodeError(origin.exc) =>
             /\ exc.cls = origin.exc.cls
             /\ exc.val = origin.exc.val
             /\ exc.pos = IF origin.exc.pos # NoPos THEN origin.exc.pos
                          ELSE IF ret.through = <<>> THEN NoPos
                          ELSE ret.through[1]
             /\ ret.through # <<>> => ret.through[1] = origin.path
        /\ origin.exc.cls = "CompilerError" => exc = origin.exc /\ exc.pos = NoPos

\* C10 witness: an error raised without a position left three wrappers at
\* three different nodes and carries the position of the innermost one
C10_Witness ==
    /\ phase = "propagated"
    /\ IsCodeError(origin.exc)
    /\ origin.exc.pos = NoPos
    /\ Len(ret.through) = 3
    /\ ret.through[2] # ret.through[1]
    /\ ret.through[3] # ret.through[1]
    /\ exc.pos = ret.through[1]

\* C21 : applying the code generator to the Source node the passes produced
\* issues exactly one render request for the program-root template, with one
\* text per top-level function and one (mangled name, target storage type,
\* default initializer) entry per harvested local variable in harvest order,
\* and every if, elif, else, print, assignment and update statement inside
\* it issues exactly one render request of its own template, with its position
C21_RootCodegen ==
    (phase = "codegen" /\ (exc # NoExc \/ rendered # <<>>)) =>
        LET roots == {i \in 1..Len(rendered) :
                        rendered[i].template = "openmp-cpu:main.cpp"}
            harvest[k \in 0..Len(ast.kids)] ==
                IF k = 0 THEN <<>> ELSE harvest[k - 1] \o funcs[<<k>>].lvars
            lvars == harvest[Len(ast.kids)]
            tname(v) == NodeAt(v).kids[1].name
            TemplateOf ==
                [IfStmt |-> "openmp-cpu:if_stmt", ElifSection |-> "openmp-cpu:elif_section",
                 ElseSection |-> "openmp-cpu:else_section",
                 PrintStmt |-> "openmp-cpu:print_stmt",
                 AssignmentStmt |-> "openmp-cpu:assignment_stmt",
                 UpdateStmt |-> "openmp-cpu:update_stmt"]
        IN  /\ exc = NoExc
            /\ Cardinality(roots) = 1
            /\ \A i \in roots :
                  /\ Len(rendered[i].params.stmts) = Len(ast.kids)
                  /\ rendered[i].params.lvars =
                        [k \in 1..Len(lvars) |->
                            <<"_" \o NodeAt(lvars[k]).name, TYPE_TO_CTYPE[tname(lvars[k])],
                              IF tname(lvars[k]) = "str" THEN "\"\"" ELSE "0">>]
            /\ \A p \in AllPaths :
                  NodeAt(p).kind \in DOMAIN TemplateOf =>
                     Cardinality({i \in 1..Len(rendered) :
                                    /\ rendered[i].template = TemplateOf[NodeAt(p).kind]
                                    /\ rendered[i].pos = Pos(p)}) = 1

================================================================
